---- MODULE Spec2Model ----
(***************************************************************************)
(* Technical-analysis engine of backend/technical.py:                      *)
(*   calculate_indicators, detect_candlestick_patterns, detect_patterns.   *)
(*                                                                         *)
(* Numbers.  Prices are integers in hundredths (cents): 100.00 is 10000.   *)
(* round(x, 2) is rounding of an exact quotient to the nearest cent, ties  *)
(* to even.  RSI values are in hundredths of a point (70.00 is 7000).      *)
(* A missing value (NaN in pandas, None in the returned lists) is the      *)
(* empty tuple None, a present value v is the one-element tuple Some(v).   *)
(* Python indices are 0-based, sequences here are 1-based: Python s[-1]    *)
(* is s[Len(s)], Python bar index i is bar i+1 here.                       *)
(***************************************************************************)
EXTENDS Integers, Sequences, FiniteSets, TLC

VARIABLES
    hist_data,     \* the caller's bar series (list of dicts)
    hist_none,     \* TRUE when the caller passed None instead of a list
    pc,            \* position of the caller: "start", "computed", "detected",
                   \* "scanned", "responded", "rejected"
    indicators,    \* dict returned by calculate_indicators(hist_data)
    arg_kind,      \* which indicators argument detect_patterns was given
    arg_ind,       \* the indicators argument detect_patterns was given
    patterns,      \* list returned by detect_patterns
    raised,        \* TRUE when detect_patterns raised instead of returning
    candles,       \* list returned by a direct detect_candlestick_patterns call
    status         \* HTTP status the request handler answered with, 0 before it answers

vars == <<hist_data, hist_none, pc, indicators, arg_kind, arg_ind, patterns, raised, candles, status>>

(***************************************************************************)
(* Bounds of the input families.                                           *)
(***************************************************************************)
MotifLen == 3        \* bars in the repeating motif of a short series
LongMotifLen == 2    \* bars in the repeating motif of a long series
LongExtra == 1       \* long series have 200 .. 200+LongExtra bars

Step == 100          \* one price step of the generated series: 1.00
BaseShort == 9900    \* price before the first bar of a short series: 99.00
BaseLong == 30000    \* price before the first bar of a long series: 300.00
BaseVolume == 1000   \* volume of an ordinary bar
SpikeVolume == 5000  \* volume of the last bar of a series with a volume spike
TinyBody == 10       \* body of a hammer-shaped bar that is also a doji: 0.10

ShortLens == {0, 1, 4, 5, 10, 19, 20, 21, 25, 30}
LongLens == 200 .. (200 + LongExtra)

(***************************************************************************)
(* Optional values and arithmetic helpers.                                 *)
(***************************************************************************)
None == << >>
Some(v) == << v >>
Val(x) == x[1]

\* s[-1] and s[-2]
Last(s) == s[Len(s)]
Prev(s) == s[Len(s) - 1]

Max2(a, b) == IF a >= b THEN a ELSE b
Min2(a, b) == IF a <= b THEN a ELSE b
Abs(a) == IF a >= 0 THEN a ELSE -a

\* round(num/den) to the nearest integer, ties to even (den > 0)
RoundDiv(num, den) ==
    LET q == num \div den
        r == num % den
    IN  IF 2 * r < den THEN q
        ELSE IF 2 * r > den THEN q + 1
        ELSE IF q % 2 = 0 THEN q ELSE q + 1

RECURSIVE SumFn(_, _, _)
\* f[a] + ... + f[b], by halving the range
SumFn(f, a, b) ==
    IF a > b THEN 0
    ELSE IF a = b THEN f[a]
    ELSE LET mid == (a + b) \div 2 IN SumFn(f, a, mid) + SumFn(f, mid + 1, b)

RECURSIVE MinFn(_, _, _)
MinFn(f, a, b) ==
    IF a = b THEN f[a]
    ELSE LET mid == (a + b) \div 2 IN Min2(MinFn(f, a, mid), MinFn(f, mid + 1, b))

RECURSIVE MaxFn(_, _, _)
MaxFn(f, a, b) ==
    IF a = b THEN f[a]
    ELSE LET mid == (a + b) \div 2 IN Max2(MaxFn(f, a, mid), MaxFn(f, mid + 1, b))

RECURSIVE ISqrtBin(_, _, _)
\* largest r in lo..hi with r*r <= n (lo*lo <= n < (hi+1)*(hi+1))
ISqrtBin(n, lo, hi) ==
    IF lo >= hi THEN lo
    ELSE LET mid == (lo + hi + 1) \div 2
         IN  IF mid * mid <= n THEN ISqrtBin(n, mid, hi) ELSE ISqrtBin(n, lo, mid - 1)

ISqrt(n) == ISqrtBin(n, 0, 46340)

(***************************************************************************)
(* The caller's inputs: bar series generated from a repeating motif of bar *)
(* kinds.  Every bar opens at the previous close.                          *)
(*   "U" bullish bar closing one Step up, "D" bearish bar closing one Step *)
(*   down, "J" doji (open = close, a Step of shadow on both sides),        *)
(*   "F" flat bar of zero range.                                           *)
(***************************************************************************)
Kinds == {"U", "D", "J", "F"}
Motifs == [1 .. MotifLen -> Kinds]
LongMotifs == [1 .. LongMotifLen -> Kinds]

MakeBar(kind, prev, vol, i) ==
    [date   |-> i,
     open   |-> prev,
     close  |-> IF kind = "U" THEN prev + Step ELSE IF kind = "D" THEN prev - Step ELSE prev,
     high   |-> IF kind \in {"U", "J"} THEN prev + Step ELSE prev,
     low    |-> IF kind \in {"D", "J"} THEN prev - Step ELSE prev,
     volume |-> vol]

\* net number of Steps the close has moved after the first k bars of the motif
NetSteps(motif, k) ==
    LET len == Len(motif)
        move == [j \in 1 .. len |->
                    IF motif[j] = "U" THEN 1 ELSE IF motif[j] = "D" THEN -1 ELSE 0]
    IN  (k \div len) * SumFn(move, 1, len) + SumFn(move, 1, k % len)

\* the n-bar series of the motif, the first bar opening at base
GenSeries(n, base, motif, spike) ==
    [k \in 1 .. n |->
        MakeBar(motif[((k - 1) % Len(motif)) + 1],
                base + Step * NetSteps(motif, k - 1),
                IF spike /\ k = n THEN SpikeVolume ELSE BaseVolume,
                k)]

ShortSeries == { GenSeries(n, BaseShort, m, s) : n \in ShortLens, m \in Motifs, s \in BOOLEAN }
LongSeries == { GenSeries(n, BaseLong, m, s) : n \in LongLens, m \in LongMotifs, s \in BOOLEAN }

\* the 25-bar scenario: closes 100.00 .. 124.00, volume 1000 except 5000 on the last bar
Scenario25 == GenSeries(25, BaseShort, [i \in 1 .. MotifLen |-> "U"], TRUE)

(***************************************************************************)
(* Series given bar by bar as shapes: the move of the close from the open  *)
(* and the lengths of the upper and lower shadows.                         *)
(***************************************************************************)
Shape(move, upper, lower) == [move |-> move, upper |-> upper, lower |-> lower]

ShapedSeries(base, shapes) ==
    LET n == Len(shapes)
        move == [k \in 1 .. n |-> shapes[k].move]
    IN  [k \in 1 .. n |->
            LET prev == base + SumFn(move, 1, k - 1)
            IN  [date   |-> k,
                 open   |-> prev,
                 close  |-> prev + move[k],
                 high   |-> Max2(prev, prev + move[k]) + shapes[k].upper,
                 low    |-> Min2(prev, prev + move[k]) - shapes[k].lower,
                 volume |-> BaseVolume]]

\* 21 bars: bar 19 bearish with body 10.00, bar 20 with body 2.00, bar 21
\* bullish with body 10.00; bars 1 .. 18 alternate up and down with one body
StarBodies == {0, Step, 5 * Step, 10 * Step, 15 * Step, 24 * Step}

StarSeries(body, firstUp, middleUp) ==
    ShapedSeries(BaseLong,
        [k \in 1 .. 21 |->
            IF k <= 18 THEN Shape(IF (k % 2 = 1) = firstUp THEN body ELSE -body, 0, 0)
            ELSE IF k = 19 THEN Shape(-10 * Step, 0, 0)
            ELSE IF k = 20 THEN Shape(IF middleUp THEN 2 * Step ELSE -2 * Step, 0, 0)
            ELSE Shape(10 * Step, 0, 0)])

StarFamily == { StarSeries(b, f, m) : b \in StarBodies, f \in BOOLEAN, m \in BOOLEAN }

\* the shape of a bar of each kind; besides the kinds above:
\*   "H" hammer-shaped bullish bar (body one Step, lower shadow three Steps),
\*   "HJ" the same with a body of TinyBody, under a tenth of its range,
\*   "I" and "IJ" their mirror images with the shadow above the body
KindShape(kind) ==
    CASE kind = "U" -> Shape(Step, 0, 0)
      [] kind = "D" -> Shape(-Step, 0, 0)
      [] kind = "J" -> Shape(0, Step, Step)
      [] kind = "H" -> Shape(Step, 0, 3 * Step)
      [] kind = "HJ" -> Shape(TinyBody, 0, 3 * Step)
      [] kind = "I" -> Shape(Step, 3 * Step, 0)
      [] kind = "IJ" -> Shape(TinyBody, 3 * Step, 0)
      [] OTHER -> Shape(0, 0, 0)

\* two-phase series: bars 1 .. cut of one kind, the later bars of another
PhaseLens == {21, 30, 60}
PhaseCuts == {3, 6, 10, 20}

PhaseSeries(n, cut, first, second) ==
    ShapedSeries(BaseShort, [k \in 1 .. n |-> KindShape(IF k <= cut THEN first ELSE second)])

PhaseFamily ==
    { PhaseSeries(n, cut, a, b) : n \in PhaseLens, cut \in PhaseCuts, a \in Kinds, b \in Kinds }

\* series of a repeating motif of hammer-shaped and falling bars
HammerKinds == {"D", "H", "HJ", "I", "IJ"}
HammerLens == {6, 21}

HammerSeries(n, motif) ==
    ShapedSeries(BaseShort, [k \in 1 .. n |-> KindShape(motif[((k - 1) % Len(motif)) + 1])])

HammerFamily == { HammerSeries(n, m) : n \in HammerLens, m \in [1 .. MotifLen -> HammerKinds] }

\* 201 bars closing at BaseLong, except bar 1 (off by first), bar 2 (off by
\* second) and bar 201 (off by last), the offsets being fractions of a Step:
\* the 50-bar and 200-bar means of bars 200 and 201 differ by less than a cent
CrossFirstOffsets == {-50, 0, 50}
CrossSecondOffsets == {-20, 0}
CrossLastOffsets == {0, 20, 100}

CrossSeries(first, second, last) ==
    ShapedSeries(BaseLong,
        [k \in 1 .. 201 |->
            IF k = 1 THEN Shape(first, 0, 0)
            ELSE IF k = 2 THEN Shape(second - first, 0, 0)
            ELSE IF k = 3 THEN Shape(-second, 0, 0)
            ELSE IF k = 201 THEN Shape(last, 0, 0)
            ELSE Shape(0, 0, 0)])

CrossFamily ==
    { CrossSeries(a, b, z) : a \in CrossFirstOffsets, b \in CrossSecondOffsets, z \in CrossLastOffsets }

\* rising series of 20 or 21 bars with one volume on the last bar and
\* another on every earlier bar: no trading at all (0 and 0), a last bar of
\* exactly twice the mean (19 after 9s) and just above it (20 after 9s)
QuietLens == {20, 21}
QuietRestVolumes == {0, 9}
QuietLastVolumes == {0, 1, 19, 20}

QuietSeries(n, rest, last) ==
    LET rising == GenSeries(n, BaseShort, [i \in 1 .. MotifLen |-> "U"], FALSE)
    IN  [k \in 1 .. n |-> [rising[k] EXCEPT !.volume = IF k = n THEN last ELSE rest]]

QuietFamily ==
    { QuietSeries(n, r, l) : n \in QuietLens, r \in QuietRestVolumes, l \in QuietLastVolumes }

InputSeries ==
    ShortSeries \cup LongSeries \cup StarFamily \cup PhaseFamily \cup HammerFamily
    \cup CrossFamily \cup QuietFamily

Closes(hist) == [i \in 1 .. Len(hist) |-> hist[i].close]

(***************************************************************************)
(* pandas primitives used by calculate_indicators.                         *)
(***************************************************************************)
\* Series.rolling(window=w).sum(): missing until w values are available
RollingSum(x, n, w) ==
    [i \in 1 .. n |-> IF i < w THEN None ELSE Some(SumFn(x, i - w + 1, i))]

\* mutant: a missing entry is returned as 0 (fillna(0))
SafeRoundSeries_fillzero(s, n, den) ==
    [i \in 1 .. n |-> IF s[i] = None THEN Some(0) ELSE Some(RoundDiv(Val(s[i]), den))]

\* _safe_round_series of a series of quotients s[i]/den: NaN -> None, else round(x, 2)
SafeRoundSeries(s, n, den) ==
    [i \in 1 .. n |-> IF s[i] = None THEN None ELSE Some(RoundDiv(Val(s[i]), den))]

\* Fixed-point representation of the exponentially weighted means: a value
\* v cents is carried as v * FPScale, the normalising weight sum as w * WScale.
FPScale == 100
WScale == 10000

\* One step of Series.ewm(span, adjust=False).mean(): y[1] = x[1],
\* y[t] = (1-a)*y[t-1] + a*x[t] with a = 2/(span+1)
EwmPlainStep(y, x, span, t) ==
    IF t = 1 THEN << x[1] >>
    ELSE Append(y, ((span - 1) * y[t - 1] + 2 * x[t]) \div (span + 1))

RECURSIVE EwmPlainRun(_, _, _, _, _)
\* y, which holds the entries 1 .. a-1, extended by the entries a .. b,
\* by halving the range
EwmPlainRun(y, x, span, a, b) ==
    IF a > b \/ Len(y) # a - 1 THEN y
    ELSE IF a = b THEN EwmPlainStep(y, x, span, a)
    ELSE LET mid == (a + b) \div 2
         IN  EwmPlainRun(EwmPlainRun(y, x, span, a, mid), x, span, mid + 1, b)

EwmPlain(x, span, n) == EwmPlainRun(<< >>, x, span, 1, n)

\* 1 + (1-a) + ... + (1-a)^(t-1), the weight sum of ewm(span, adjust=True)
EwmWeightStep(w, span, t) ==
    IF t = 1 THEN << WScale >>
    ELSE Append(w, WScale + ((span - 1) * w[t - 1]) \div (span + 1))

RECURSIVE EwmWeightRun(_, _, _, _)
EwmWeightRun(w, span, a, b) ==
    IF a > b \/ Len(w) # a - 1 THEN w
    ELSE IF a = b THEN EwmWeightStep(w, span, a)
    ELSE LET mid == (a + b) \div 2
         IN  EwmWeightRun(EwmWeightRun(w, span, a, mid), span, mid + 1, b)

EwmWeights(span, n) == EwmWeightRun(<< >>, span, 1, n)

\* One step of Series.ewm(span).mean() (adjust=True, the default): the
\* weighted mean of x[1..t] with weights (1-a)^(t-j), as
\* y[t] = y[t-1] + (x[t] - y[t-1]) / W[t]
EwmAdjustedStep(y, x, wts, t) ==
    IF t = 1 THEN << x[1] >>
    ELSE LET d == x[t] - y[t - 1]
             \* (d * WScale) \div wts[t], split so that no product leaves 32 bits
         IN  Append(y, y[t - 1] + (d \div wts[t]) * WScale
                                + ((d % wts[t]) * WScale) \div wts[t])

RECURSIVE EwmAdjustedRun(_, _, _, _, _)
EwmAdjustedRun(y, x, wts, a, b) ==
    IF a > b \/ Len(y) # a - 1 THEN y
    ELSE IF a = b THEN EwmAdjustedStep(y, x, wts, a)
    ELSE LET mid == (a + b) \div 2
         IN  EwmAdjustedRun(EwmAdjustedRun(y, x, wts, a, mid), x, wts, mid + 1, b)

EwmAdjusted(x, span, n) == EwmAdjustedRun(<< >>, x, EwmWeights(span, n), 1, n)

\* round(v, 2) of every entry of a fixed-point series (no entry is NaN)
RoundFixedSeries(y, n) == [i \in 1 .. n |-> Some(RoundDiv(y[i], FPScale))]

\* gain and loss of bar i: delta.where(delta > 0, 0) and -delta.where(delta < 0, 0);
\* the first delta is NaN, for which both conditions are false
Gain(close, i) == IF i >= 2 /\ close[i] - close[i - 1] > 0 THEN close[i] - close[i - 1] ELSE 0
Loss(close, i) == IF i >= 2 /\ close[i] - close[i - 1] < 0 THEN close[i - 1] - close[i] ELSE 0

RsiWindow == 14

\* mutant: rsi = 100 * gain / loss, the relative strength itself scaled
RsiQuot_ratio(g, l) == <<10000 * g, l>>

\* 100 - 100/(1 + g/l) = 100*g/(g+l), in hundredths, as <<numerator, denominator>>
RsiQuot(g, l) == <<10000 * g, g + l>>

\* rsi = 100 - 100/(1 + gain/loss.replace(0, nan)) as the quotient <<num, den>>
\* of 100*gain/(gain+loss) in hundredths; NaN where the window is short or
\* the mean loss is 0
RsiRaw(close, n) ==
    LET gain == [i \in 1 .. n |-> Gain(close, i)]
        loss == [i \in 1 .. n |-> Loss(close, i)]
    IN  [i \in 1 .. n |->
            IF i < RsiWindow THEN None
            ELSE LET g == SumFn(gain, i - RsiWindow + 1, i)
                     l == SumFn(loss, i - RsiWindow + 1, i)
                 IN  IF l = 0 THEN None ELSE Some(RsiQuot(g, l))]

RoundRsi(x) == RoundDiv(Val(x)[1], Val(x)[2])

BBWindow == 20

\* 2 * rolling(20).std() (sample deviation, ddof = 1) in tenths of a cent; None
\* until 20 values are available.  With d[j] = x[j] - ref for any ref (here
\* the window mean rounded down), 20*19*var = 20*sum(d^2) - sum(d)^2.
TwoStdTenths(close, n) ==
    [i \in 1 .. n |->
        IF i < BBWindow THEN None
        ELSE LET ref == SumFn(close, i - BBWindow + 1, i) \div BBWindow
                 d == [j \in (i - BBWindow + 1) .. i |-> close[j] - ref]
                 sq == [j \in (i - BBWindow + 1) .. i |-> d[j] * d[j]]
                 s1 == SumFn(d, i - BBWindow + 1, i)
                 v == BBWindow * SumFn(sq, i - BBWindow + 1, i) - s1 * s1
             IN  Some(ISqrt((v \div (BBWindow - 1)) * BBWindow))]

\* mutant: the band is returned without its leading NaN entries (dropna)
BandSeries_dropna(sum20, twoStd, n, sign) ==
    [i \in 1 .. (n - BBWindow + 1) |->
        Some(RoundDiv(10 * Val(sum20[i + BBWindow - 1]) + sign * BBWindow * Val(twoStd[i + BBWindow - 1]),
                      10 * BBWindow))]

\* bb_middle + sign * 2 * bb_std, rounded
BandSeries(sum20, twoStd, n, sign) ==
    [i \in 1 .. n |->
        IF sum20[i] = None THEN None
        ELSE Some(RoundDiv(10 * Val(sum20[i]) + sign * BBWindow * Val(twoStd[i]), 10 * BBWindow))]

MinBars == 20
SupportWindow == 60

ErrorResult == [error |-> "Insufficient data for indicator calculations"]

\* mutant: the minimum is tested with <= instead of <
TooShort_inclusive(none, hist) == none \/ Len(hist) = 0 \/ Len(hist) <= MinBars

\* not hist_data or len(hist_data) < 20
TooShort(none, hist) == none \/ Len(hist) = 0 \/ Len(hist) < MinBars

\* mutant: the support is the lowest close before the last bar
SupportOf_previous(close, n) == MinFn(close, Max2(1, n - SupportWindow), n - 1)

\* recent_close = close.tail(60); round(float(recent_close.min()), 2) and
\* round(float(recent_close.max()), 2): closes are whole cents already
SupportOf(close, n) == MinFn(close, Max2(1, n - SupportWindow + 1), n)
ResistanceOf(close, n) == MaxFn(close, Max2(1, n - SupportWindow + 1), n)

(***************************************************************************)
(* calculate_indicators(hist_data)                                         *)
(***************************************************************************)
calculate_indicators(none, hist) ==
    IF TooShort(none, hist) THEN ErrorResult
    ELSE
    LET n == Len(hist)
        close == Closes(hist)
        sum20 == RollingSum(close, n, 20)
        sum50 == RollingSum(close, n, 50)
        sum200 == RollingSum(close, n, 200)
        fx == [i \in 1 .. n |-> close[i] * FPScale]
        rsi == RsiRaw(close, n)
        a12 == EwmAdjusted(fx, 12, n)
        a26 == EwmAdjusted(fx, 26, n)
        macd_line == [i \in 1 .. n |-> a12[i] - a26[i]]
        signal_line == EwmAdjusted(macd_line, 9, n)
        macd_histogram == [i \in 1 .. n |-> macd_line[i] - signal_line[i]]
        twoStd == TwoStdTenths(close, n)
        sma_50 == SafeRoundSeries(sum50, n, 50)
        sma_200 == SafeRoundSeries(sum200, n, 200)
    IN  [sma_20 |-> SafeRoundSeries(sum20, n, 20),
         sma_50 |-> sma_50,
         sma_200 |-> sma_200,
         ema_12 |-> RoundFixedSeries(EwmPlain(fx, 12, n), n),
         ema_26 |-> RoundFixedSeries(EwmPlain(fx, 26, n), n),
         rsi |-> [i \in 1 .. n |-> IF rsi[i] = None THEN None ELSE Some(RoundRsi(rsi[i]))],
         macd_line |-> RoundFixedSeries(macd_line, n),
         macd_signal |-> RoundFixedSeries(signal_line, n),
         macd_histogram |-> RoundFixedSeries(macd_histogram, n),
         bb_upper |-> BandSeries(sum20, twoStd, n, 1),
         bb_middle |-> SafeRoundSeries(sum20, n, 20),
         bb_lower |-> BandSeries(sum20, twoStd, n, -1),
         support |-> SupportOf(close, n),
         resistance |-> ResistanceOf(close, n),
         current_rsi |-> IF rsi[n] = None THEN 5000 ELSE RoundRsi(rsi[n]),
         current_macd |-> RoundDiv(macd_line[n], FPScale),
         current_sma_50 |-> Last(sma_50),
         current_sma_200 |-> Last(sma_200)]

(***************************************************************************)
(* Patterns.  A candlestick pattern carries a category, a composite one    *)
(* is the dict of detect_patterns, which has no such key.  The description *)
(* is the text of the f-string without its interpolated values.            *)
(***************************************************************************)
CandlePattern(type, desc, signal, conf, date) ==
    [type |-> type, description |-> desc, signal |-> signal,
     confidence |-> conf, date |-> date, category |-> "candlestick"]

CompositePattern(type, desc, signal, conf, date) ==
    [type |-> type, description |-> desc, signal |-> signal,
     confidence |-> conf, date |-> date]

MinCandleBars == 5
ScanWindow == 15
AvgBodyWindow == 20
AvgBodyMinPeriods == 5

Body(hist, i) == Abs(hist[i].close - hist[i].open)

\* body.rolling(window=20, min_periods=5).mean() at bar i as <<sum, count>>,
\* replaced by the bar's own body where it is NaN
AvgBody(hist, i) ==
    LET cnt == Min2(i, AvgBodyWindow)
        body == [j \in 1 .. i |-> Body(hist, j)]
    IN  IF cnt < AvgBodyMinPeriods THEN <<Body(hist, i), 1>>
        ELSE <<SumFn(body, i - cnt + 1, i), cnt>>

\* mutant: the scan starts one bar earlier
ScanFirst_sixteen(n) == Max2(4, n - ScanWindow)

\* first bar of the scan: range(max(3, len(df) - 15), len(df))
ScanFirst(n) == Max2(4, n - ScanWindow + 1)

\* x > ab * tenths/10  and  x < ab * tenths/10, ab given as <<sum, count>>
AboveAvg(x, ab, tenths) == 10 * x * ab[2] > tenths * ab[1]
BelowAvg(x, ab, tenths) == 10 * x * ab[2] < tenths * ab[1]

UpperShadow(hist, i) == hist[i].high - Max2(hist[i].open, hist[i].close)
LowerShadow(hist, i) == Min2(hist[i].open, hist[i].close) - hist[i].low

\* mutant: the three single-candle shapes are tested one after another
\* with plain ifs, so a bar can be a Doji and a Hammer at once
SingleCandle_independent(hist, i) ==
    LET b == Body(hist, i)
        r == hist[i].high - hist[i].low
        date == hist[i].date
        downtrend == hist[i - 2].close > hist[i - 1].close
    IN  (IF 10 * b < r /\ r > 0
         THEN << CandlePattern("Doji", "indecision in the market", "neutral", 55, date) >>
         ELSE << >>)
        \o
        (IF LowerShadow(hist, i) > b * 2 /\ 2 * UpperShadow(hist, i) < b
            /\ hist[i].close > hist[i].open /\ i > 3 /\ downtrend
         THEN << CandlePattern("Hammer", "potential reversal", "bullish", 65, date) >>
         ELSE << >>)
        \o
        (IF UpperShadow(hist, i) > b * 2 /\ 2 * LowerShadow(hist, i) < b
            /\ b > 0 /\ i > 3 /\ downtrend
         THEN << CandlePattern("Inverted Hammer", "potential bullish reversal after downtrend", "bullish", 60, date) >>
         ELSE << >>)

\* the if / elif / elif chain of the single-candle shapes: Doji, else
\* Hammer, else Inverted Hammer; a branch that is entered ends the chain
\* even when its inner downtrend test fails
SingleCandle(hist, i) ==
    LET b == Body(hist, i)
        r == hist[i].high - hist[i].low
        date == hist[i].date
    IN  IF 10 * b < r /\ r > 0
        THEN << CandlePattern("Doji", "indecision in the market", "neutral", 55, date) >>
        ELSE IF LowerShadow(hist, i) > b * 2 /\ 2 * UpperShadow(hist, i) < b
                /\ hist[i].close > hist[i].open /\ i > 3
        THEN IF hist[i - 2].close > hist[i - 1].close
             THEN << CandlePattern("Hammer", "potential reversal", "bullish", 65, date) >>
             ELSE << >>
        ELSE IF UpperShadow(hist, i) > b * 2 /\ 2 * LowerShadow(hist, i) < b /\ b > 0 /\ i > 3
        THEN IF hist[i - 2].close > hist[i - 1].close
             THEN << CandlePattern("Inverted Hammer", "potential bullish reversal after downtrend", "bullish", 60, date) >>
             ELSE << >>
        ELSE << >>

\* mutant: the third candle must exceed the whole average body, not half of it
MorningStar_fullbody(hist, i) ==
    LET ab == AvgBody(hist, i)
    IN  IF i >= 3
           /\ hist[i - 2].close < hist[i - 2].open /\ AboveAvg(Body(hist, i - 2), ab, 5)
           /\ BelowAvg(Body(hist, i - 1), ab, 3)
           /\ hist[i].close > hist[i].open /\ AboveAvg(Body(hist, i), ab, 10)
           /\ 2 * hist[i].close > hist[i - 2].open + hist[i - 2].close
        THEN << CandlePattern("Morning Star", "3-candle bullish reversal pattern", "bullish", 75, hist[i].date) >>
        ELSE << >>

\* Morning Star: bars i-2, i-1, i against the average body at bar i
MorningStar(hist, i) ==
    LET ab == AvgBody(hist, i)
    IN  IF i >= 3
           /\ hist[i - 2].close < hist[i - 2].open /\ AboveAvg(Body(hist, i - 2), ab, 5)
           /\ BelowAvg(Body(hist, i - 1), ab, 3)
           /\ hist[i].close > hist[i].open /\ AboveAvg(Body(hist, i), ab, 5)
           /\ 2 * hist[i].close > hist[i - 2].open + hist[i - 2].close
        THEN << CandlePattern("Morning Star", "3-candle bullish reversal pattern", "bullish", 75, hist[i].date) >>
        ELSE << >>

\* the patterns appended in one iteration of the scan loop, in order
CandlesAt(hist, i) ==
    LET o == hist[i].open
        h == hist[i].high
        l == hist[i].low
        c == hist[i].close
        date == hist[i].date
        b == Body(hist, i)
        r == h - l
        ab == AvgBody(hist, i)
        is_bull == c > o
        is_bear == c < o
        bull_engulf ==
            IF i > 1 /\ is_bull
               /\ hist[i - 1].close < hist[i - 1].open
               /\ o <= hist[i - 1].close /\ c >= hist[i - 1].open /\ b > Body(hist, i - 1)
            THEN << CandlePattern("Bullish Engulfing", "green candle fully engulfs prior red candle", "bullish", 72, date) >>
            ELSE << >>
        bear_engulf ==
            IF i > 1 /\ is_bear
               /\ hist[i - 1].close > hist[i - 1].open
               /\ o >= hist[i - 1].close /\ c <= hist[i - 1].open /\ b > Body(hist, i - 1)
            THEN << CandlePattern("Bearish Engulfing", "red candle fully engulfs prior green candle", "bearish", 72, date) >>
            ELSE << >>
        evening ==
            IF i >= 3
               /\ hist[i - 2].close > hist[i - 2].open /\ AboveAvg(Body(hist, i - 2), ab, 5)
               /\ BelowAvg(Body(hist, i - 1), ab, 3)
               /\ is_bear /\ AboveAvg(b, ab, 5)
               /\ 2 * c < hist[i - 2].open + hist[i - 2].close
            THEN << CandlePattern("Evening Star", "3-candle bearish reversal pattern", "bearish", 75, date) >>
            ELSE << >>
        soldiers ==
            IF i >= 3
               /\ (\A j \in 0 .. 2 : hist[i - j].close > hist[i - j].open)
               /\ c > hist[i - 1].close /\ hist[i - 1].close > hist[i - 2].close
               /\ (\A j \in 0 .. 2 : AboveAvg(Body(hist, i - j), ab, 4))
            THEN << CandlePattern("Three White Soldiers", "three consecutive bullish candles", "bullish", 78, date) >>
            ELSE << >>
        crows ==
            IF i >= 3
               /\ (\A j \in 0 .. 2 : hist[i - j].close < hist[i - j].open)
               /\ c < hist[i - 1].close /\ hist[i - 1].close < hist[i - 2].close
               /\ (\A j \in 0 .. 2 : AboveAvg(Body(hist, i - j), ab, 4))
            THEN << CandlePattern("Three Black Crows", "three consecutive bearish candles", "bearish", 78, date) >>
            ELSE << >>
    IN  IF r = 0 THEN << >>
        ELSE SingleCandle(hist, i) \o bull_engulf \o bear_engulf \o MorningStar(hist, i)
             \o evening \o soldiers \o crows

RECURSIVE ScanCandles(_, _, _)
\* the patterns list after the scan loop has run over bars first .. i
ScanCandles(hist, first, i) ==
    IF i < first THEN << >>
    ELSE ScanCandles(hist, first, i - 1) \o CandlesAt(hist, i)

\* mutant: the confidence is compared with >=, so a later equal one replaces
SeenPut_lastwins(seen, p) ==
    IF \A k \in 1 .. Len(seen) : seen[k].type # p.type
    THEN Append(seen, p)
    ELSE [k \in 1 .. Len(seen) |->
            IF seen[k].type = p.type /\ p.confidence >= seen[k].confidence
            THEN p ELSE seen[k]]

\* mutant: every pattern found is kept, whatever its type
SeenPut_keepall(seen, p) == Append(seen, p)

\* one step of the deduplication loop: seen[key] = p when the key is new or
\* p has a strictly higher confidence; a dict keeps the position of a key
SeenPut(seen, p) ==
    IF \A k \in 1 .. Len(seen) : seen[k].type # p.type
    THEN Append(seen, p)
    ELSE [k \in 1 .. Len(seen) |->
            IF seen[k].type = p.type /\ p.confidence > seen[k].confidence
            THEN p ELSE seen[k]]

RECURSIVE Dedup(_, _)
\* list(seen.values()) after the first k patterns went through the loop
Dedup(found, k) ==
    IF k = 0 THEN << >> ELSE SeenPut(Dedup(found, k - 1), found[k])

\* mutant: the minimum of 5 bars is not tested, only the empty series
CandleTooShort_emptyonly(none, hist) == none \/ Len(hist) = 0

\* not hist_data or len(hist_data) < 5
CandleTooShort(none, hist) == none \/ Len(hist) = 0 \/ Len(hist) < MinCandleBars

(***************************************************************************)
(* detect_candlestick_patterns(hist_data)                                  *)
(***************************************************************************)
detect_candlestick_patterns(none, hist) ==
    IF CandleTooShort(none, hist) THEN << >>
    ELSE LET found == ScanCandles(hist, ScanFirst(Len(hist)), Len(hist))
         IN  Dedup(found, Len(found))

(***************************************************************************)
(* detect_patterns(hist_data, indicators): the composite rules.            *)
(***************************************************************************)
\* dict.get(key, default)
Get(ind, key, default) == IF key \in DOMAIN ind THEN ind[key] ELSE default

\* mutant: the Death Cross branch tests sma_50[-1] > sma_200[-1]
CrossRule_flipped(ind, date) ==
    LET sma_50 == Get(ind, "sma_50", << >>)
        sma_200 == Get(ind, "sma_200", << >>)
    IN  IF Len(sma_50) >= 2 /\ Len(sma_200) >= 2
           /\ Last(sma_50) # None /\ Last(sma_200) # None
           /\ Prev(sma_50) # None /\ Prev(sma_200) # None
        THEN IF Val(Last(sma_50)) > Val(Last(sma_200)) /\ Val(Prev(sma_50)) <= Val(Prev(sma_200))
             THEN << CompositePattern("Golden Cross", "50-day MA crossed above 200-day MA", "bullish", 75, date) >>
             ELSE IF Val(Last(sma_50)) > Val(Last(sma_200)) /\ Val(Prev(sma_50)) >= Val(Prev(sma_200))
             THEN << CompositePattern("Death Cross", "50-day MA crossed below 200-day MA", "bearish", 75, date) >>
             ELSE << >>
        ELSE << >>

\* mutant: the earlier bar must have the 50-day mean strictly on the other side
CrossRule_strictprev(ind, date) ==
    LET sma_50 == Get(ind, "sma_50", << >>)
        sma_200 == Get(ind, "sma_200", << >>)
    IN  IF Len(sma_50) >= 2 /\ Len(sma_200) >= 2
           /\ Last(sma_50) # None /\ Last(sma_200) # None
           /\ Prev(sma_50) # None /\ Prev(sma_200) # None
        THEN IF Val(Last(sma_50)) > Val(Last(sma_200)) /\ Val(Prev(sma_50)) < Val(Prev(sma_200))
             THEN << CompositePattern("Golden Cross", "50-day MA crossed above 200-day MA", "bullish", 75, date) >>
             ELSE IF Val(Last(sma_50)) < Val(Last(sma_200)) /\ Val(Prev(sma_50)) > Val(Prev(sma_200))
             THEN << CompositePattern("Death Cross", "50-day MA crossed below 200-day MA", "bearish", 75, date) >>
             ELSE << >>
        ELSE << >>

\* the four entries compared are those of the indicator set, which
\* calculate_indicators has rounded to 2 decimals
CrossRule(ind, date) ==
    LET sma_50 == Get(ind, "sma_50", << >>)
        sma_200 == Get(ind, "sma_200", << >>)
    IN  IF Len(sma_50) >= 2 /\ Len(sma_200) >= 2
           /\ Last(sma_50) # None /\ Last(sma_200) # None
           /\ Prev(sma_50) # None /\ Prev(sma_200) # None
        THEN IF Val(Last(sma_50)) > Val(Last(sma_200)) /\ Val(Prev(sma_50)) <= Val(Prev(sma_200))
             THEN << CompositePattern("Golden Cross", "50-day MA crossed above 200-day MA", "bullish", 75, date) >>
             ELSE IF Val(Last(sma_50)) < Val(Last(sma_200)) /\ Val(Prev(sma_50)) >= Val(Prev(sma_200))
             THEN << CompositePattern("Death Cross", "50-day MA crossed below 200-day MA", "bearish", 75, date) >>
             ELSE << >>
        ELSE << >>

TrendRule(ind, current_price, date) ==
    LET sma_50 == Get(ind, "sma_50", << >>)
        sma_200 == Get(ind, "sma_200", << >>)
    IN  IF Len(sma_50) > 0 /\ Len(sma_200) > 0 /\ Last(sma_50) # None /\ Last(sma_200) # None
        THEN IF current_price > Val(Last(sma_50)) /\ Val(Last(sma_50)) > Val(Last(sma_200))
             THEN << CompositePattern("Strong Uptrend", "Price above 50-day MA, which is above 200-day MA", "bullish", 70, date) >>
             ELSE IF current_price < Val(Last(sma_50)) /\ Val(Last(sma_50)) < Val(Last(sma_200))
             THEN << CompositePattern("Strong Downtrend", "Price below 50-day MA, which is below 200-day MA", "bearish", 70, date) >>
             ELSE << >>
        ELSE << >>

RsiOverbought == 7000
RsiOversold == 3000
RsiNeutral == 5000

RsiRule(ind, date) ==
    LET current_rsi == Get(ind, "current_rsi", RsiNeutral)
    IN  IF current_rsi > RsiOverbought
        THEN << CompositePattern("RSI Overbought", "stock may be overbought", "bearish", 65, date) >>
        ELSE IF current_rsi < RsiOversold
        THEN << CompositePattern("RSI Oversold", "stock may be oversold", "bullish", 65, date) >>
        ELSE << >>

MacdRule(ind, date) ==
    LET macd_line == Get(ind, "macd_line", << >>)
        macd_signal == Get(ind, "macd_signal", << >>)
    IN  IF Len(macd_line) >= 2 /\ Len(macd_signal) >= 2
           /\ Last(macd_line) # None /\ Last(macd_signal) # None
           /\ Prev(macd_line) # None /\ Prev(macd_signal) # None
        THEN IF Val(Last(macd_line)) > Val(Last(macd_signal)) /\ Val(Prev(macd_line)) <= Val(Prev(macd_signal))
             THEN << CompositePattern("MACD Bullish Crossover", "MACD line crossed above signal line", "bullish", 60, date) >>
             ELSE IF Val(Last(macd_line)) < Val(Last(macd_signal)) /\ Val(Prev(macd_line)) >= Val(Prev(macd_signal))
             THEN << CompositePattern("MACD Bearish Crossover", "MACD line crossed below signal line", "bearish", 60, date) >>
             ELSE << >>
        ELSE << >>

\* mutant: a touch needs the price strictly beyond the band
BollingerRule_strict(ind, current_price, date) ==
    LET bb_upper == Get(ind, "bb_upper", << >>)
        bb_lower == Get(ind, "bb_lower", << >>)
    IN  IF Len(bb_upper) > 0 /\ Len(bb_lower) > 0 /\ Last(bb_upper) # None /\ Last(bb_lower) # None
        THEN IF current_price > Val(Last(bb_upper))
             THEN << CompositePattern("Bollinger Band Upper Touch", "potential resistance", "bearish", 55, date) >>
             ELSE IF current_price < Val(Last(bb_lower))
             THEN << CompositePattern("Bollinger Band Lower Touch", "potential support", "bullish", 55, date) >>
             ELSE << >>
        ELSE << >>

\* mutant: the lower-band test is a second if, not the elif of the upper one
BollingerRule_both(ind, current_price, date) ==
    LET bb_upper == Get(ind, "bb_upper", << >>)
        bb_lower == Get(ind, "bb_lower", << >>)
    IN  IF Len(bb_upper) > 0 /\ Len(bb_lower) > 0 /\ Last(bb_upper) # None /\ Last(bb_lower) # None
        THEN (IF current_price >= Val(Last(bb_upper))
              THEN << CompositePattern("Bollinger Band Upper Touch", "potential resistance", "bearish", 55, date) >>
              ELSE << >>)
             \o
             (IF current_price <= Val(Last(bb_lower))
              THEN << CompositePattern("Bollinger Band Lower Touch", "potential support", "bullish", 55, date) >>
              ELSE << >>)
        ELSE << >>

BollingerRule(ind, current_price, date) ==
    LET bb_upper == Get(ind, "bb_upper", << >>)
        bb_lower == Get(ind, "bb_lower", << >>)
    IN  IF Len(bb_upper) > 0 /\ Len(bb_lower) > 0 /\ Last(bb_upper) # None /\ Last(bb_lower) # None
        THEN IF current_price >= Val(Last(bb_upper))
             THEN << CompositePattern("Bollinger Band Upper Touch", "potential resistance", "bearish", 55, date) >>
             ELSE IF current_price <= Val(Last(bb_lower))
             THEN << CompositePattern("Bollinger Band Lower Touch", "potential support", "bullish", 55, date) >>
             ELSE << >>
        ELSE << >>

DoubleWindow == 30

\* the last two members of a set of positions, as <<earlier, later>>
LastTwo(S) ==
    LET hi == CHOOSE a \in S : \A b \in S : b <= a
        lo == CHOOSE a \in S \ {hi} : \A b \in S \ {hi} : b <= a
    IN  <<lo, hi>>

\* mutant: each pattern is dated at the bar of its most recent extremum
\* (the date of bar i of a series is i)
DoubleRule_anchored(close, n, date) ==
    IF n >= DoubleWindow
    THEN LET recent_30 == [k \in 1 .. DoubleWindow |-> close[n - DoubleWindow + k]]
             highs == { k \in 3 .. (DoubleWindow - 2) :
                          /\ recent_30[k] > recent_30[k - 1] /\ recent_30[k] > recent_30[k - 2]
                          /\ recent_30[k] > recent_30[k + 1] /\ recent_30[k] > recent_30[k + 2] }
             lows == { k \in 3 .. (DoubleWindow - 2) :
                          /\ recent_30[k] < recent_30[k - 1] /\ recent_30[k] < recent_30[k - 2]
                          /\ recent_30[k] < recent_30[k + 1] /\ recent_30[k] < recent_30[k + 2] }
             Similar(pair) ==
                 LET a == recent_30[pair[1]]
                     b == recent_30[pair[2]]
                 IN  100 * Abs(a - b) < 2 * Max2(a, b)
             top == IF Cardinality(highs) >= 2 /\ Similar(LastTwo(highs))
                    THEN << CompositePattern("Double Top", "bearish reversal signal", "bearish", 60,
                                             n - DoubleWindow + LastTwo(highs)[2]) >>
                    ELSE << >>
             bottom == IF Cardinality(lows) >= 2 /\ Similar(LastTwo(lows))
                       THEN << CompositePattern("Double Bottom", "bullish reversal signal", "bullish", 60,
                                                n - DoubleWindow + LastTwo(lows)[2]) >>
                       ELSE << >>
         IN  top \o bottom
    ELSE << >>

DoubleRule(close, n, date) ==
    IF n >= DoubleWindow
    THEN LET recent_30 == [k \in 1 .. DoubleWindow |-> close[n - DoubleWindow + k]]
             highs == { k \in 3 .. (DoubleWindow - 2) :
                          /\ recent_30[k] > recent_30[k - 1] /\ recent_30[k] > recent_30[k - 2]
                          /\ recent_30[k] > recent_30[k + 1] /\ recent_30[k] > recent_30[k + 2] }
             lows == { k \in 3 .. (DoubleWindow - 2) :
                          /\ recent_30[k] < recent_30[k - 1] /\ recent_30[k] < recent_30[k - 2]
                          /\ recent_30[k] < recent_30[k + 1] /\ recent_30[k] < recent_30[k + 2] }
             \* abs(a - b) / max(a, b) < 0.02
             Similar(pair) ==
                 LET a == recent_30[pair[1]]
                     b == recent_30[pair[2]]
                 IN  100 * Abs(a - b) < 2 * Max2(a, b)
             top == IF Cardinality(highs) >= 2 /\ Similar(LastTwo(highs))
                    THEN << CompositePattern("Double Top", "bearish reversal signal", "bearish", 60, date) >>
                    ELSE << >>
             bottom == IF Cardinality(lows) >= 2 /\ Similar(LastTwo(lows))
                       THEN << CompositePattern("Double Bottom", "bullish reversal signal", "bullish", 60, date) >>
                       ELSE << >>
         IN  top \o bottom
    ELSE << >>

VolumeWindow == 20

\* round(last_vol / avg_vol, 1) of the description, in tenths; it is
\* computed only when the rule fires
VolumeMultiple(hist) ==
    LET n == Len(hist)
        volume == [i \in 1 .. n |-> hist[i].volume]
    IN  RoundDiv(10 * VolumeWindow * volume[n], SumFn(volume, n - VolumeWindow + 1, n))

\* mutant: a last volume of exactly twice the mean is a spike too
VolumeRule_atleast(hist, date) ==
    LET n == Len(hist)
        volume == [i \in 1 .. n |-> hist[i].volume]
    IN  IF n >= VolumeWindow
           /\ VolumeWindow * volume[n] >= 2 * SumFn(volume, n - VolumeWindow + 1, n)
        THEN << CompositePattern("Volume Spike", "above 20-day average", "neutral", 70, date) >>
        ELSE << >>

VolumeRule(hist, date) ==
    LET n == Len(hist)
        volume == [i \in 1 .. n |-> hist[i].volume]
    IN  IF n >= VolumeWindow
           \* last_vol > avg_vol * 2
           /\ VolumeWindow * volume[n] > 2 * SumFn(volume, n - VolumeWindow + 1, n)
        THEN << CompositePattern("Volume Spike", "above 20-day average", "neutral", 70, date) >>
        ELSE << >>

\* mutant: the price must also lie between the two levels
ProximityRule_bounded(ind, current_price, date) ==
    LET support == Get(ind, "support", 0)
        resistance == Get(ind, "resistance", 0)
    IN  IF support # 0 /\ resistance # 0
        THEN (IF current_price >= support /\ 100 * current_price < 102 * support
              THEN << CompositePattern("Near Support", "Price near support level", "bullish", 55, date) >>
              ELSE << >>)
             \o
             (IF current_price <= resistance /\ 100 * current_price > 98 * resistance
              THEN << CompositePattern("Near Resistance", "Price near resistance level", "bearish", 55, date) >>
              ELSE << >>)
        ELSE << >>

\* mutant: the resistance test runs before the support test
ProximityRule_swapped(ind, current_price, date) ==
    LET support == Get(ind, "support", 0)
        resistance == Get(ind, "resistance", 0)
    IN  IF support # 0 /\ resistance # 0
        THEN (IF 100 * current_price > 98 * resistance
              THEN << CompositePattern("Near Resistance", "Price near resistance level", "bearish", 55, date) >>
              ELSE << >>)
             \o
             (IF 100 * current_price < 102 * support
              THEN << CompositePattern("Near Support", "Price near support level", "bullish", 55, date) >>
              ELSE << >>)
        ELSE << >>

ProximityRule(ind, current_price, date) ==
    LET support == Get(ind, "support", 0)
        resistance == Get(ind, "resistance", 0)
    IN  \* a missing key and a zero level are both falsy
        IF support # 0 /\ resistance # 0
        THEN (IF 100 * current_price < 102 * support
              THEN << CompositePattern("Near Support", "Price near support level", "bullish", 55, date) >>
              ELSE << >>)
             \o
             (IF 100 * current_price > 98 * resistance
              THEN << CompositePattern("Near Resistance", "Price near resistance level", "bearish", 55, date) >>
              ELSE << >>)
        ELSE << >>

\* mutant: the failure marker of calculate_indicators is not recognised
HasError_never(ind) == FALSE

\* "error" in indicators
HasError(ind) == "error" \in DOMAIN ind

Returned(list) == [raised |-> FALSE, value |-> list]
TypeError == [raised |-> TRUE, value |-> << >>]

(***************************************************************************)
(* detect_patterns(hist_data, indicators).  ind_none: the indicators       *)
(* argument is None, on which the test "error" in indicators raises.       *)
(***************************************************************************)
detect_patterns(none, hist, ind_none, ind) ==
    IF none \/ Len(hist) = 0 THEN Returned(<< >>)
    ELSE IF ind_none THEN TypeError
    ELSE IF HasError(ind) THEN Returned(<< >>)
    ELSE
    LET n == Len(hist)
        close == Closes(hist)
        current_price == close[n]
        date == hist[n].date
    IN  Returned(detect_candlestick_patterns(none, hist)
                 \o CrossRule(ind, date)
                 \o TrendRule(ind, current_price, date)
                 \o RsiRule(ind, date)
                 \o MacdRule(ind, date)
                 \o BollingerRule(ind, current_price, date)
                 \o DoubleRule(close, n, date)
                 \o VolumeRule(hist, date)
                 \o ProximityRule(ind, current_price, date))

(***************************************************************************)
(* The caller.  One request: the caller holds a bar series, computes its   *)
(* indicators, asks for the patterns with an indicators argument of its    *)
(* choice, and asks the candlestick detector directly.                     *)
(***************************************************************************)
EmptyDict == << >>

\* indicator sets of other series a caller may hand to detect_patterns
ForeignIndicators ==
    { calculate_indicators(FALSE, Scenario25),
      calculate_indicators(FALSE, GenSeries(20, BaseShort, [i \in 1 .. MotifLen |-> "D"], FALSE)) }

ArgKinds == {"computed", "empty", "marker", "absent", "foreign"}

ArgChoices(computed) ==
    { <<"computed", computed>>, <<"empty", EmptyDict>>, <<"marker", ErrorResult>>,
      <<"absent", EmptyDict>> }
    \cup { <<"foreign", f>> : f \in ForeignIndicators }

Init ==
    /\ \/ hist_none = FALSE /\ hist_data \in InputSeries
       \/ hist_none = TRUE /\ hist_data = << >>
    /\ pc = "start"
    /\ indicators = EmptyDict
    /\ arg_kind = "unset"
    /\ arg_ind = EmptyDict
    /\ patterns = << >>
    /\ raised = FALSE
    /\ candles = << >>
    /\ status = 0

\* mutant: calculate_indicators reverses the caller's list in place
CalcIndicators_reversing ==
    /\ pc = "start"
    /\ indicators' = calculate_indicators(hist_none, hist_data)
    /\ hist_data' = [i \in 1 .. Len(hist_data) |-> hist_data[Len(hist_data) + 1 - i]]
    /\ pc' = "computed"
    /\ UNCHANGED <<hist_none, arg_kind, arg_ind, patterns, raised, candles, status>>

\* indicators = calculate_indicators(data["history"]); the function reads the
\* list into a new DataFrame and writes to nothing the caller holds
CalcIndicators ==
    /\ pc = "start"
    /\ indicators' = calculate_indicators(hist_none, hist_data)
    /\ pc' = "computed"
    /\ UNCHANGED <<hist_data, hist_none, arg_kind, arg_ind, patterns, raised, candles, status>>

\* patterns = detect_patterns(data["history"], <indicators argument>)
DetectPatterns ==
    /\ pc = "computed"
    /\ \E arg \in ArgChoices(indicators) :
          LET res == detect_patterns(hist_none, hist_data, arg[1] = "absent", arg[2])
          IN  /\ arg_kind' = arg[1]
              /\ arg_ind' = arg[2]
              /\ patterns' = res.value
              /\ raised' = res.raised
    /\ pc' = "detected"
    /\ UNCHANGED <<hist_data, hist_none, indicators, candles, status>>

\* detect_candlestick_patterns(hist_data) called on its own
DetectCandles ==
    /\ pc = "detected"
    /\ candles' = detect_candlestick_patterns(hist_none, hist_data)
    /\ pc' = "scanned"
    /\ UNCHANGED <<hist_data, hist_none, indicators, arg_kind, arg_ind, patterns, raised, status>>

HttpNotFound == 404
HttpOk == 200

\* the request handler on a fetch that found no data:
\* if "error" in data: raise HTTPException(status_code=404, detail=data["error"])
RejectNoData ==
    /\ pc = "start"
    /\ hist_none \/ Len(hist_data) = 0
    /\ status' = HttpNotFound
    /\ pc' = "rejected"
    /\ UNCHANGED <<hist_data, hist_none, indicators, arg_kind, arg_ind, patterns, raised, candles>>

\* the request handler after calculate_indicators and detect_patterns on the
\* fetched history and its own indicators: the patterns are saved and the
\* dict {"stock", "indicators", "patterns"} is returned, which is a 200
\* response; nothing on the way looks at the indicators
Respond ==
    /\ pc = "detected"
    /\ arg_kind = "computed"
    /\ ~hist_none /\ Len(hist_data) > 0
    /\ status' = HttpOk
    /\ pc' = "responded"
    /\ UNCHANGED <<hist_data, hist_none, indicators, arg_kind, arg_ind, patterns, raised, candles>>

Next == CalcIndicators \/ DetectPatterns \/ DetectCandles \/ RejectNoData \/ Respond

Spec == Init /\ [][Next]_vars

TypeOK ==
    /\ pc \in {"start", "computed", "detected", "scanned", "responded", "rejected"}
    /\ status \in {0, HttpOk, HttpNotFound}
    /\ hist_none \in BOOLEAN
    /\ raised \in BOOLEAN
    /\ arg_kind \in ArgKinds \cup {"unset"}

(***************************************************************************)
(* Properties.                                                             *)
(***************************************************************************)
Computed == pc \notin {"start", "rejected"}
Detected == pc \in {"detected", "scanned"}
Failed == "error" \in DOMAIN indicators
NBars == Len(hist_data)

HasPattern(list, type, signal, conf) ==
    \E k \in 1 .. Len(list) :
        list[k].type = type /\ list[k].signal = signal /\ list[k].confidence = conf

HasType(list, type) == \E k \in 1 .. Len(list) : list[k].type = type

\* C1: calculate_indicators on fewer than 20 bars (an empty or missing
\* series included) yields the insufficient-data result and nothing else;
\* on 20 or more bars it never yields that failure.
C1_InsufficientData ==
    Computed =>
        IF hist_none \/ NBars < 20
        THEN indicators = ErrorResult /\ DOMAIN indicators = {"error"}
        ELSE ~Failed

C1_Witness == pc = "computed" /\ ~hist_none /\ NBars = 19 /\ Failed

\* C2 as stated: detect_patterns returns the empty list without error
\* whenever the indicators signal insufficient data or the series has fewer
\* than 5 bars, whatever dict the indicators argument is.
C2_Original ==
    (Detected /\ arg_kind # "absent" /\ (HasError(arg_ind) \/ NBars < 5)) =>
        (patterns = << >> /\ ~raised)

\* C2 amended: detect_patterns returns the empty list without error whenever
\* the indicators signal insufficient data or the series is empty or
\* missing; on a series of 1 to 4 bars with any indicator dict it raises no
\* error and returns no candlestick pattern (the composite rules still run).
C2_Amended ==
    Detected =>
        /\ (hist_none \/ NBars = 0) => (patterns = << >> /\ ~raised)
        /\ (arg_kind # "absent" /\ "error" \in DOMAIN arg_ind) => (patterns = << >> /\ ~raised)
        /\ (NBars \in 1 .. 4 /\ arg_kind # "absent") =>
              (~raised /\ \A k \in 1 .. Len(patterns) : "category" \notin DOMAIN patterns[k])

C2_Witness ==
    Detected /\ NBars \in 1 .. 4 /\ arg_kind = "foreign" /\ ~raised /\ Len(patterns) > 0

C4_Scenario ==
    (Detected /\ hist_data = Scenario25 /\ arg_kind = "computed") =>
        /\ indicators.current_rsi > 7000
        /\ HasPattern(patterns, "RSI Overbought", "bearish", 65)
        /\ HasPattern(patterns, "Volume Spike", "neutral", 70)

\* C5: at every bar with a full 14-bar window of price changes whose mean
\* loss is 0, the rsi entry is 100, and so is current_rsi at the last bar
\* (stated here for the windows that also hold a gain, where 100 is the
\* undisputed value).
C5_ZeroLossRsi ==
    (Computed /\ ~Failed) =>
        \A i \in 15 .. NBars :
            (/\ \A j \in (i - 13) .. i : hist_data[j].close >= hist_data[j - 1].close
             /\ \E j \in (i - 13) .. i : hist_data[j].close > hist_data[j - 1].close) =>
                /\ indicators.rsi[i] = Some(10000)
                /\ i = NBars => indicators.current_rsi = 10000

\* C6: every non-missing rsi entry, and current_rsi, is in [0, 100].
C6_RsiRange ==
    (Computed /\ ~Failed) =>
        /\ \A i \in 1 .. Len(indicators.rsi) :
              indicators.rsi[i] # None =>
                  (Val(indicators.rsi[i]) >= 0 /\ Val(indicators.rsi[i]) <= 10000)
        /\ indicators.current_rsi >= 0
        /\ indicators.current_rsi <= 10000

C6_Witness ==
    /\ pc = "computed" /\ ~Failed
    /\ \E i \in 1 .. NBars :
          indicators.rsi[i] # None /\ Val(indicators.rsi[i]) > 5000 /\ Val(indicators.rsi[i]) < 10000
    /\ indicators.current_rsi > 0 /\ indicators.current_rsi < 5000

PerBarSeries ==
    {"sma_20", "sma_50", "sma_200", "ema_12", "ema_26", "rsi",
     "macd_line", "macd_signal", "macd_histogram", "bb_upper", "bb_middle", "bb_lower"}

\* C7: for n >= 20 bars every per-bar series of the result has exactly n
\* entries, indexed by the bars 1 .. n.
C7_Alignment ==
    (Computed /\ ~Failed) =>
        \A name \in PerBarSeries :
            /\ Len(indicators[name]) = NBars
            /\ DOMAIN indicators[name] = 1 .. NBars

C7_Witness ==
    /\ pc = "computed" /\ ~Failed /\ NBars = 201
    /\ indicators.sma_200[199] = None /\ indicators.sma_200[201] # None
    /\ Len(indicators.sma_200) = 201

\* the patterns the scan loop found before deduplication
Found ==
    IF CandleTooShort(hist_none, hist_data) THEN << >>
    ELSE ScanCandles(hist_data, ScanFirst(NBars), NBars)

\* C9: detect_candlestick_patterns returns at most one pattern per type;
\* the one returned has the highest confidence found for the type and is
\* the first found among those; the aggregated list has at most one Doji.
C9_Dedup ==
    pc = "scanned" =>
        LET found == Found
        IN  /\ \A a, b \in 1 .. Len(candles) : a # b => candles[a].type # candles[b].type
            /\ \A k \in 1 .. Len(candles) :
                  LET same == { j \in 1 .. Len(found) : found[j].type = candles[k].type }
                      best == { j \in same : \A m \in same : found[m].confidence <= found[j].confidence }
                  IN  /\ best # {}
                      /\ candles[k] = found[CHOOSE j \in best : \A m \in best : j <= m]
            /\ \A j \in 1 .. Len(found) : HasType(candles, found[j].type)
            /\ Cardinality({ k \in 1 .. Len(patterns) : patterns[k].type = "Doji" }) <= 1

C9_Witness ==
    /\ pc = "scanned"
    /\ LET found == Found
       IN  Cardinality({ j \in 1 .. Len(found) : found[j].type = "Doji" }) >= 2
    /\ HasType(candles, "Doji")
    /\ HasType(patterns, "Doji")

Monotone(hist) == \A i \in 2 .. Len(hist) : hist[i].close >= hist[i - 1].close

\* C10: for 200 or more bars with monotonically increasing closes the last
\* sma_50 is >= the last sma_200 and detect_patterns on the series and its
\* indicators contains no Death Cross.
C10_NoDeathCross ==
    (Computed /\ NBars >= 200 /\ Monotone(hist_data)) =>
        /\ Val(Last(indicators.sma_50)) >= Val(Last(indicators.sma_200))
        /\ (Detected /\ arg_kind = "computed") => ~HasType(patterns, "Death Cross")

C10_Witness ==
    /\ pc = "detected" /\ arg_kind = "computed"
    /\ NBars >= 201 /\ Monotone(hist_data)
    /\ hist_data[NBars].close > hist_data[1].close
    /\ Val(Last(indicators.sma_50)) > Val(Last(indicators.sma_200))
    /\ Val(Prev(indicators.sma_50)) > Val(Prev(indicators.sma_200))

\* the 21-bar scenario: bar 19 bearish with body 10.00, bar 20 with body
\* 2.00, bar 21 bullish with body 10.00 closing above the midpoint of bar 19
IsStarScenario(hist) ==
    /\ Len(hist) = 21
    /\ hist[19].close < hist[19].open /\ Body(hist, 19) = 10 * Step
    /\ Body(hist, 20) = 2 * Step
    /\ hist[21].close > hist[21].open /\ Body(hist, 21) = 10 * Step
    /\ 2 * hist[21].close > hist[19].open + hist[19].close

\* sum of the bodies of the 20 bars 2 .. 21, i.e. 20 times their mean
StarBodySum(hist) == SumFn([j \in 1 .. 21 |-> Body(hist, j)], 2, 21)

\* the mean body m of bars 2 .. 21 leaves bar 19 and bar 21 above 0.5 m and
\* bar 20 below 0.3 m
StarBodiesFit(hist) ==
    /\ 2 * 20 * Body(hist, 19) > StarBodySum(hist)
    /\ 10 * 20 * Body(hist, 20) < 3 * StarBodySum(hist)
    /\ 2 * 20 * Body(hist, 21) > StarBodySum(hist)

\* C11 as stated: on every 21-bar series whose bar 19 is bearish with body
\* 10, bar 20 has body 2 and bar 21 is bullish with body 10 closing above
\* the midpoint of bar 19, the candlestick detector emits Morning Star
\* (bullish, 75), whatever the other 18 bars are.
C11_Original ==
    (pc = "scanned" /\ ~hist_none /\ IsStarScenario(hist_data)) =>
        HasPattern(candles, "Morning Star", "bullish", 75)

\* C11 amended: on such a series the detector emits Morning Star (bullish,
\* 75) when the mean body of bars 2 .. 21 leaves bars 19 and 21 above half
\* of it and bar 20 below three tenths of it (a mean strictly between 6.67
\* and 20.00); when it does not, the scan finds no Morning Star at bar 21.
C11_Amended ==
    (pc = "scanned" /\ ~hist_none /\ IsStarScenario(hist_data)) =>
        IF StarBodiesFit(hist_data)
        THEN HasPattern(candles, "Morning Star", "bullish", 75)
        ELSE LET found == Found
             IN  \A k \in 1 .. Len(found) :
                     ~(found[k].type = "Morning Star" /\ found[k].date = hist_data[21].date)

C11_Witness ==
    /\ pc = "scanned" /\ ~hist_none /\ IsStarScenario(hist_data)
    /\ StarBodiesFit(hist_data)
    /\ Body(hist_data, 5) = 15 * Step
    /\ \E k \in 1 .. Len(candles) :
          candles[k].type = "Morning Star" /\ candles[k].date = hist_data[21].date

PatternFields == {"type", "description", "signal", "confidence", "date", "category"}

\* C12: every pattern returned by detect_patterns carries type, description,
\* signal, confidence, date and category; the signal is bullish, bearish or
\* neutral, the confidence an integer in 0 .. 100, the category
\* "candlestick" or "composite".
C12_PatternFields ==
    (Detected /\ ~raised) =>
        \A k \in 1 .. Len(patterns) :
            /\ PatternFields \subseteq DOMAIN patterns[k]
            /\ patterns[k].signal \in {"bullish", "bearish", "neutral"}
            /\ patterns[k].confidence \in 0 .. 100
            /\ patterns[k].category \in {"candlestick", "composite"}

\* position of a composite pattern type in the order of the rules, 0 for
\* any other type
CompositeRank(type) ==
    CASE type \in {"Golden Cross", "Death Cross"} -> 1
      [] type \in {"Strong Uptrend", "Strong Downtrend"} -> 2
      [] type \in {"RSI Overbought", "RSI Oversold"} -> 3
      [] type \in {"MACD Bullish Crossover", "MACD Bearish Crossover"} -> 4
      [] type \in {"Bollinger Band Upper Touch", "Bollinger Band Lower Touch"} -> 5
      [] type = "Double Top" -> 6
      [] type = "Double Bottom" -> 7
      [] type = "Volume Spike" -> 8
      [] type = "Near Support" -> 9
      [] type = "Near Resistance" -> 10
      [] OTHER -> 0

\* list is exactly prefix followed by composite patterns in rule order
CandlesThenComposites(list, prefix) ==
    /\ Len(list) >= Len(prefix)
    /\ SubSeq(list, 1, Len(prefix)) = prefix
    /\ \A k \in (Len(prefix) + 1) .. Len(list) : CompositeRank(list[k].type) > 0
    /\ \A k \in (Len(prefix) + 1) .. (Len(list) - 1) :
          CompositeRank(list[k].type) < CompositeRank(list[k + 1].type)

\* C13 as stated: the list returned by detect_patterns is exactly the list
\* of detect_candlestick_patterns for the same series followed by the
\* composite patterns in the fixed order of the rules.
C13_Original ==
    (pc = "scanned" /\ ~raised) => CandlesThenComposites(patterns, candles)

\* C13 amended: when the series is not empty and the indicators do not
\* carry the insufficient-data marker, the list returned by detect_patterns
\* is exactly the list of detect_candlestick_patterns for the same series
\* followed by the composite patterns in the fixed order of the rules; with
\* the marker (or an empty series) the returned list is empty, whatever the
\* candlestick detector finds.
C13_Amended ==
    (pc = "scanned" /\ ~raised) =>
        IF hist_none \/ NBars = 0 \/ "error" \in DOMAIN arg_ind
        THEN patterns = << >>
        ELSE CandlesThenComposites(patterns, candles)

C13_Witness ==
    /\ pc = "scanned" /\ ~raised /\ arg_kind = "computed" /\ ~Failed
    /\ Len(candles) >= 2
    /\ Len(patterns) >= Len(candles) + 3
    /\ HasType(patterns, "Near Support") /\ HasType(patterns, "Near Resistance")

\* the composite rule a pattern type belongs to, 0 for any other type:
\* 1 Golden/Death Cross, 2 trend regime, 3 RSI extremes, 4 MACD crossover,
\* 5 Bollinger touch, 6 Double Top/Bottom, 7 Volume Spike, 8 proximity
CompositeRule(type) ==
    CASE CompositeRank(type) \in 1 .. 5 -> CompositeRank(type)
      [] CompositeRank(type) \in {6, 7} -> 6
      [] CompositeRank(type) = 8 -> 7
      [] CompositeRank(type) \in {9, 10} -> 8
      [] OTHER -> 0

CountOfRule(list, g) == Cardinality({ k \in 1 .. Len(list) : CompositeRule(list[k].type) = g })
CountOfType(list, type) == Cardinality({ k \in 1 .. Len(list) : list[k].type = type })

\* C14 as stated: each of the eight composite rules (Golden/Death Cross,
\* trend regime, RSI extremes, MACD crossover, Bollinger touch, Double
\* Top/Bottom, Volume Spike, Support/Resistance proximity) contributes at
\* most one pattern to a call of detect_patterns.
C14_Original ==
    (Detected /\ ~raised) => \A g \in 1 .. 8 : CountOfRule(patterns, g) <= 1

\* C14 amended: Golden/Death Cross, trend regime, RSI extremes, MACD
\* crossover, Bollinger touch and Volume Spike contribute at most one
\* pattern each; Double Top/Bottom and Support/Resistance proximity are
\* pairs of independent tests that contribute at most one pattern of each
\* of their two types, so up to two patterns each.
C14_Amended ==
    (Detected /\ ~raised) =>
        /\ \A g \in {1, 2, 3, 4, 5, 7} : CountOfRule(patterns, g) <= 1
        /\ \A t \in {"Double Top", "Double Bottom", "Near Support", "Near Resistance"} :
              CountOfType(patterns, t) <= 1

C14_Witness ==
    /\ Detected /\ ~raised /\ arg_kind = "computed"
    /\ CountOfRule(patterns, 8) = 2
    /\ CountOfRule(patterns, 5) = 1

\* the last non-missing entry of a per-bar series, None when there is none
LastPresent(s) ==
    LET present == { i \in 1 .. Len(s) : s[i] # None }
    IN  IF present = {} THEN None
        ELSE s[CHOOSE i \in present : \A j \in present : j <= i]

\* C15: current_rsi, current_macd, current_sma_50 and current_sma_200 equal
\* the last non-missing entry of rsi, macd_line, sma_50 and sma_200;
\* current_rsi is 50 and current_macd is 0 only when the series has no
\* non-missing entry at all (current_sma_50 / current_sma_200 are then
\* missing).
C15_CurrentValues ==
    (Computed /\ ~Failed) =>
        /\ indicators.current_rsi =
              (IF LastPresent(indicators.rsi) = None THEN 5000
               ELSE Val(LastPresent(indicators.rsi)))
        /\ indicators.current_macd =
              (IF LastPresent(indicators.macd_line) = None THEN 0
               ELSE Val(LastPresent(indicators.macd_line)))
        /\ indicators.current_sma_50 = LastPresent(indicators.sma_50)
        /\ indicators.current_sma_200 = LastPresent(indicators.sma_200)

\* C16: when the indicator computation of an analysis request fails with
\* insufficient data, the request handler ends with a 4xx client error; it
\* does not return a success response.
C16_ClientError ==
    (pc = "responded" /\ Failed) => status \in 400 .. 499

\* positive prices with high >= max(open, close) >= min(open, close) >= low
\* and a non-negative volume on every bar
ValidBars(hist) ==
    \A i \in 1 .. Len(hist) :
        /\ hist[i].open > 0 /\ hist[i].close > 0 /\ hist[i].high > 0 /\ hist[i].low > 0
        /\ hist[i].high >= Max2(hist[i].open, hist[i].close)
        /\ Min2(hist[i].open, hist[i].close) >= hist[i].low
        /\ hist[i].volume >= 0

\* C17: for every series of 20 or more valid bars calculate_indicators
\* completes without error (its result is not the failure marker and holds
\* every key) and detect_patterns on the series and that result completes
\* without error and returns a list.
C17_Total ==
    (Computed /\ ~hist_none /\ NBars >= 20 /\ ValidBars(hist_data)) =>
        /\ ~Failed
        /\ PerBarSeries \cup {"support", "resistance", "current_rsi", "current_macd",
                              "current_sma_50", "current_sma_200"} \subseteq DOMAIN indicators
        /\ (pc \in {"detected", "scanned", "responded"} /\ arg_kind = "computed") =>
              /\ ~raised
              /\ DOMAIN patterns = 1 .. Len(patterns)
              /\ \A k \in 1 .. Len(patterns) : "type" \in DOMAIN patterns[k]

\* a flat 20-bar window: zero mean gain and loss, zero deviation, missing
\* sma_50 and sma_200, and still a result and a list of patterns
C17_Witness ==
    /\ pc = "detected" /\ arg_kind = "computed" /\ ~hist_none
    /\ NBars = 20 /\ ValidBars(hist_data)
    /\ \A i \in 1 .. NBars : hist_data[i].close = hist_data[1].close
    /\ ~Failed /\ ~raised
    /\ Last(indicators.rsi) = None
    /\ indicators.current_sma_50 = None
    /\ Last(indicators.bb_upper) = Last(indicators.bb_lower)
    /\ Len(patterns) > 0

\* C18: calculate_indicators, detect_candlestick_patterns and
\* detect_patterns leave the caller's bar series unchanged (same bars, same
\* order, same field values), and detect_patterns leaves the indicator set
\* it was given unchanged: every step keeps hist_data, and a step that runs
\* detect_patterns on the computed indicators keeps them as they were.
C18_Frame ==
    [][ /\ hist_data' = hist_data
        /\ hist_none' = hist_none
        /\ pc = "computed" => (indicators' = indicators
                                /\ (arg_kind' = "computed" => arg_ind' = indicators))
        /\ pc = "detected" => (indicators' = indicators /\ arg_ind' = arg_ind) ]_vars

C18_Witness ==
    /\ pc = "scanned" /\ ~hist_none /\ NBars >= 20
    /\ hist_data[1] # hist_data[NBars]
    /\ arg_kind = "computed" /\ arg_ind = indicators /\ ~Failed
    /\ Len(patterns) > 0 /\ Len(candles) > 0

\* the bars the scan loop visits
ScanRange == IF CandleTooShort(hist_none, hist_data) THEN {} ELSE ScanFirst(NBars) .. NBars

Downtrend(hist, i) == hist[i - 2].close > hist[i - 1].close

\* lowerShadow > 2 * body, upperShadow < 0.5 * body, bullish, after a fall
HammerHolds(hist, i) ==
    /\ LowerShadow(hist, i) > 2 * Body(hist, i)
    /\ 2 * UpperShadow(hist, i) < Body(hist, i)
    /\ hist[i].close > hist[i].open
    /\ Downtrend(hist, i)

\* upperShadow > 2 * body, lowerShadow < 0.5 * body, body > 0, after a fall
InvertedHammerHolds(hist, i) ==
    /\ UpperShadow(hist, i) > 2 * Body(hist, i)
    /\ 2 * LowerShadow(hist, i) < Body(hist, i)
    /\ Body(hist, i) > 0
    /\ Downtrend(hist, i)

\* body < 0.1 * range
DojiHolds(hist, i) == 10 * Body(hist, i) < hist[i].high - hist[i].low

\* the returned list holds a pattern of the type, dated at the first of bars
ReportedAtFirst(list, type, bars) ==
    \E k \in 1 .. Len(list) :
        /\ list[k].type = type
        /\ list[k].date = hist_data[CHOOSE i \in bars : \A j \in bars : i <= j].date

\* C19 as stated: the single-candle rules are evaluated independently per
\* bar: a Hammer is detected whenever a scanned bar satisfies the Hammer
\* conditions, and an Inverted Hammer whenever one satisfies its own,
\* whether or not another rule (the Doji rule) matches the same bar.
C19_Original ==
    pc = "scanned" =>
        /\ (\E i \in ScanRange : HammerHolds(hist_data, i)) => HasType(candles, "Hammer")
        /\ (\E i \in ScanRange : InvertedHammerHolds(hist_data, i)) =>
              HasType(candles, "Inverted Hammer")

\* C19 amended: Doji, Hammer and Inverted Hammer are one chain per bar: a
\* Hammer (bullish, 65) is detected exactly when some scanned bar satisfies
\* the Hammer conditions and is not a Doji, an Inverted Hammer (bullish, 60)
\* exactly when some scanned bar satisfies its conditions and is not a Doji
\* (the two shapes exclude each other); each is reported at the first such
\* bar.  A bar that is a Doji yields no Hammer and no Inverted Hammer.
C19_Amended ==
    pc = "scanned" =>
        LET hammers == { i \in ScanRange : HammerHolds(hist_data, i) /\ ~DojiHolds(hist_data, i) }
            inverted == { i \in ScanRange :
                            InvertedHammerHolds(hist_data, i) /\ ~DojiHolds(hist_data, i) }
        IN  /\ HasType(candles, "Hammer") <=> hammers # {}
            /\ hammers # {} =>
                  /\ ReportedAtFirst(candles, "Hammer", hammers)
                  /\ HasPattern(candles, "Hammer", "bullish", 65)
            /\ HasType(candles, "Inverted Hammer") <=> inverted # {}
            /\ inverted # {} =>
                  /\ ReportedAtFirst(candles, "Inverted Hammer", inverted)
                  /\ HasPattern(candles, "Inverted Hammer", "bullish", 60)
            /\ \A i \in ScanRange :
                  ~(HammerHolds(hist_data, i) /\ InvertedHammerHolds(hist_data, i))

\* a bar that satisfies the Hammer conditions and is a Doji: the Doji is
\* reported at that bar and no Hammer is
C19_Witness ==
    /\ pc = "scanned" /\ NBars = 21
    /\ \E i \in ScanRange :
          /\ HammerHolds(hist_data, i) /\ DojiHolds(hist_data, i)
          /\ \E k \in 1 .. Len(candles) :
                candles[k].type = "Doji" /\ candles[k].date = hist_data[i].date
    /\ ~HasType(candles, "Hammer")

\* the bars of the trailing 30 that are local extrema of the close: strictly
\* above (sign 1) or below (sign -1) the two closes on either side
LocalExtrema(hist, sign) ==
    LET n == Len(hist)
    IN  { i \in (n - 27) .. (n - 2) :
            \A j \in {i - 2, i - 1, i + 1, i + 2} :
                sign * hist[i].close > sign * hist[j].close }

\* the most recent and the one before it, of a set of at least two bars
MostRecent(S) == CHOOSE i \in S : \A j \in S : j <= i
SecondRecent(S) == MostRecent(S \ {MostRecent(S)})

\* at least two extrema, the last two within 2% of the larger
LastTwoSimilar(hist, S) ==
    /\ Cardinality(S) >= 2
    /\ 100 * Abs(hist[MostRecent(S)].close - hist[SecondRecent(S)].close)
          < 2 * Max2(hist[MostRecent(S)].close, hist[SecondRecent(S)].close)

HasDated(list, type, signal, conf, date) ==
    \E k \in 1 .. Len(list) :
        /\ list[k].type = type /\ list[k].signal = signal
        /\ list[k].confidence = conf /\ list[k].date = date

\* detect_patterns ran on 30 or more bars with indicators that do not carry
\* the insufficient-data marker
DoubleRan ==
    /\ Detected /\ ~raised /\ ~hist_none /\ NBars >= 30
    /\ arg_kind # "absent" /\ "error" \notin DOMAIN arg_ind

\* C20 as stated: with 30 or more bars whose last two local maxima of the
\* trailing 30 closes differ by less than 2% of the larger, detect_patterns
\* emits Double Top (bearish, 60) dated at the bar of the most recent of
\* those maxima; symmetrically Double Bottom (bullish, 60) dated at the bar
\* of the most recent minimum.
C20_Original ==
    DoubleRan =>
        LET tops == LocalExtrema(hist_data, 1)
            bottoms == LocalExtrema(hist_data, -1)
        IN  /\ LastTwoSimilar(hist_data, tops) =>
                  HasDated(patterns, "Double Top", "bearish", 60, hist_data[MostRecent(tops)].date)
            /\ LastTwoSimilar(hist_data, bottoms) =>
                  HasDated(patterns, "Double Bottom", "bullish", 60, hist_data[MostRecent(bottoms)].date)

\* C20 amended: under the same conditions detect_patterns emits Double Top
\* (bearish, 60), and symmetrically Double Bottom (bullish, 60), dated at
\* the last bar of the series, like every composite pattern; the bar of the
\* extremum, which is never the last bar, is not reported.
C20_Amended ==
    DoubleRan =>
        LET tops == LocalExtrema(hist_data, 1)
            bottoms == LocalExtrema(hist_data, -1)
        IN  /\ LastTwoSimilar(hist_data, tops) =>
                  /\ HasDated(patterns, "Double Top", "bearish", 60, hist_data[NBars].date)
                  /\ CountOfType(patterns, "Double Top") = 1
                  /\ MostRecent(tops) < NBars
            /\ LastTwoSimilar(hist_data, bottoms) =>
                  /\ HasDated(patterns, "Double Bottom", "bullish", 60, hist_data[NBars].date)
                  /\ CountOfType(patterns, "Double Bottom") = 1
                  /\ MostRecent(bottoms) < NBars

C20_Witness ==
    /\ DoubleRan /\ arg_kind = "computed" /\ NBars = 30
    /\ LastTwoSimilar(hist_data, LocalExtrema(hist_data, 1))
    /\ MostRecent(LocalExtrema(hist_data, 1)) < 30
    /\ HasDated(patterns, "Double Top", "bearish", 60, hist_data[30].date)

\* w times the mean of the closes of the w bars ending at bar i
WindowSum(hist, w, i) == SumFn(Closes(hist), i - w + 1, i)

\* the 50-bar mean is above (sign 1) or below (sign -1) the 200-bar mean at
\* bar i, at full precision: 4 * sum50 against sum200
MeanAbove(hist, i, sign) == sign * 4 * WindowSum(hist, 50, i) > sign * WindowSum(hist, 200, i)

\* the same comparison of the two entries of the indicator set
EntryAbove(ind, i, sign) == sign * Val(ind.sma_50[i]) > sign * Val(ind.sma_200[i])

\* detect_patterns ran on 201 or more bars and the indicators of the series
CrossRan ==
    Detected /\ ~raised /\ ~hist_none /\ NBars >= 201 /\ arg_kind = "computed"

\* C21 as stated: Golden Cross (bullish, 75) is emitted exactly when the
\* 50-bar mean of close was <= the 200-bar mean at the second-to-last bar
\* and is > it at the last bar, Death Cross (bearish, 75) exactly in the
\* mirrored case, the means compared at full precision: rounding the series
\* to 2 decimals adds and removes no cross.
C21_Original ==
    CrossRan =>
        /\ HasPattern(patterns, "Golden Cross", "bullish", 75) <=>
              (~MeanAbove(hist_data, NBars - 1, 1) /\ MeanAbove(hist_data, NBars, 1))
        /\ HasPattern(patterns, "Death Cross", "bearish", 75) <=>
              (~MeanAbove(hist_data, NBars - 1, -1) /\ MeanAbove(hist_data, NBars, -1))

\* C21 amended: the comparison is between the sma_50 and sma_200 entries of
\* the indicator set, which are rounded to 2 decimals: Golden Cross is
\* emitted exactly when the rounded sma_50 was <= the rounded sma_200 at the
\* second-to-last bar and is > it at the last bar, Death Cross exactly in
\* the mirrored case; a difference of the means of under a cent can vanish
\* in the rounding, which adds or removes a cross.
C21_Amended ==
    CrossRan =>
        /\ HasPattern(patterns, "Golden Cross", "bullish", 75) <=>
              (~EntryAbove(indicators, NBars - 1, 1) /\ EntryAbove(indicators, NBars, 1))
        /\ HasPattern(patterns, "Death Cross", "bearish", 75) <=>
              (~EntryAbove(indicators, NBars - 1, -1) /\ EntryAbove(indicators, NBars, -1))
        /\ HasType(patterns, "Golden Cross") => HasPattern(patterns, "Golden Cross", "bullish", 75)
        /\ HasType(patterns, "Death Cross") => HasPattern(patterns, "Death Cross", "bearish", 75)

\* a Golden Cross that the rounding added: at full precision the 50-bar
\* mean was already above the 200-bar mean at the second-to-last bar
C21_Witness ==
    /\ CrossRan
    /\ HasPattern(patterns, "Golden Cross", "bullish", 75)
    /\ MeanAbove(hist_data, NBars - 1, 1) /\ MeanAbove(hist_data, NBars, 1)
    /\ indicators.sma_50[NBars - 1] = indicators.sma_200[NBars - 1]
    \* the means differ by less than half a cent, so no rounding tie is involved
    /\ 4 * WindowSum(hist_data, 50, NBars - 1) - WindowSum(hist_data, 200, NBars - 1) \in 1 .. 99

\* detect_patterns ran through its rules: a non-empty series and an
\* indicators dict without the insufficient-data marker
RulesRan ==
    /\ Detected /\ ~raised /\ ~hist_none /\ NBars > 0
    /\ arg_kind # "absent" /\ "error" \notin DOMAIN arg_ind

\* both Bollinger bands of the given indicator set are defined at their last entry
BandsGiven ==
    /\ RulesRan
    /\ {"bb_upper", "bb_lower"} \subseteq DOMAIN arg_ind
    /\ Len(arg_ind.bb_upper) > 0 /\ Len(arg_ind.bb_lower) > 0
    /\ Last(arg_ind.bb_upper) # None /\ Last(arg_ind.bb_lower) # None

LastClose == hist_data[NBars].close

\* C22 as stated: with both bands defined at the last bar, Bollinger Band
\* Upper Touch (bearish, 55) is emitted whenever the last close is >= the
\* upper band and Bollinger Band Lower Touch (bullish, 55) whenever it is
\* <= the lower band, the flat 20-bar window (both bands equal to the
\* price) included.
C22_Original ==
    BandsGiven =>
        /\ LastClose >= Val(Last(arg_ind.bb_upper)) =>
              HasPattern(patterns, "Bollinger Band Upper Touch", "bearish", 55)
        /\ LastClose <= Val(Last(arg_ind.bb_lower)) =>
              HasPattern(patterns, "Bollinger Band Lower Touch", "bullish", 55)

\* C22 amended: Upper Touch (bearish, 55) is emitted exactly when the last
\* close is >= the upper band; Lower Touch (bullish, 55) exactly when the
\* last close is <= the lower band and below the upper band.  On a flat
\* window, where both bands equal the price, only the Upper Touch is emitted.
C22_Amended ==
    BandsGiven =>
        /\ HasType(patterns, "Bollinger Band Upper Touch") <=>
              LastClose >= Val(Last(arg_ind.bb_upper))
        /\ HasType(patterns, "Bollinger Band Lower Touch") <=>
              (LastClose <= Val(Last(arg_ind.bb_lower)) /\ LastClose < Val(Last(arg_ind.bb_upper)))
        /\ HasType(patterns, "Bollinger Band Upper Touch") =>
              HasPattern(patterns, "Bollinger Band Upper Touch", "bearish", 55)
        /\ HasType(patterns, "Bollinger Band Lower Touch") =>
              HasPattern(patterns, "Bollinger Band Lower Touch", "bullish", 55)

\* the flat window: both bands equal the last close, only the upper touch
C22_Witness ==
    /\ BandsGiven /\ arg_kind = "computed"
    /\ Val(Last(indicators.bb_upper)) = LastClose
    /\ Val(Last(indicators.bb_lower)) = LastClose
    /\ HasPattern(patterns, "Bollinger Band Upper Touch", "bearish", 55)
    /\ ~HasType(patterns, "Bollinger Band Lower Touch")

\* the given indicator set holds a support and a resistance, neither zero
LevelsGiven ==
    /\ RulesRan
    /\ {"support", "resistance"} \subseteq DOMAIN arg_ind
    /\ arg_ind.support # 0 /\ arg_ind.resistance # 0

\* C23 as stated: Near Support (bullish, 55) is emitted exactly when the
\* last close lies at or above the support of the given indicator set and
\* less than 2% above it, Near Resistance (bearish, 55) exactly when it lies
\* at or below the resistance and less than 2% below it.
C23_Original ==
    LevelsGiven =>
        /\ HasPattern(patterns, "Near Support", "bullish", 55) <=>
              (LastClose >= arg_ind.support /\ 100 * LastClose < 102 * arg_ind.support)
        /\ HasPattern(patterns, "Near Resistance", "bearish", 55) <=>
              (LastClose <= arg_ind.resistance /\ 100 * LastClose > 98 * arg_ind.resistance)

\* C23 amended: given a support and a resistance that are both non-zero,
\* Near Support (bullish, 55) is emitted exactly when the last close is
\* below 1.02 x support, at any distance below the support included, and
\* Near Resistance (bearish, 55) exactly when it is above 0.98 x resistance,
\* at any distance above the resistance included; when a level is missing
\* or zero neither is emitted.
C23_Amended ==
    RulesRan =>
        IF LevelsGiven
        THEN /\ HasType(patterns, "Near Support") <=> 100 * LastClose < 102 * arg_ind.support
             /\ HasType(patterns, "Near Resistance") <=> 100 * LastClose > 98 * arg_ind.resistance
             /\ HasType(patterns, "Near Support") => HasPattern(patterns, "Near Support", "bullish", 55)
             /\ HasType(patterns, "Near Resistance") =>
                   HasPattern(patterns, "Near Resistance", "bearish", 55)
        ELSE ~HasType(patterns, "Near Support") /\ ~HasType(patterns, "Near Resistance")

\* a last close more than 2% below the support of the given indicator set
C23_Witness ==
    /\ LevelsGiven /\ arg_kind = "foreign"
    /\ 100 * LastClose < 98 * arg_ind.support
    /\ HasPattern(patterns, "Near Support", "bullish", 55)
    /\ ~HasType(patterns, "Near Resistance")

\* the bars among first .. NBars whose shape is a Doji (which needs a
\* non-zero range): examined as an anchor, such a bar always yields a Doji
DojiBars(first) ==
    { i \in Max2(1, first) .. NBars : DojiHolds(hist_data, i) }

DatedWithin(list, first) ==
    \A k \in 1 .. Len(list) :
        \E i \in Max2(1, first) .. NBars : list[k].date = hist_data[i].date

\* C24 as stated: detect_candlestick_patterns returns the empty list for
\* fewer than 5 bars; for n >= 5 bars every returned pattern is dated at one
\* of the last 15 bars, and each of the last min(15, n) bars with a
\* non-zero range is examined as an anchor (so the first Doji-shaped bar
\* among them is where the Doji is reported).
C24_Original ==
    pc = "scanned" =>
        IF hist_none \/ NBars < 5 THEN candles = << >>
        ELSE /\ DatedWithin(candles, NBars - 14)
             /\ DojiBars(NBars - 14) # {} =>
                   ReportedAtFirst(candles, "Doji", DojiBars(NBars - 14))

\* C24 amended: detect_candlestick_patterns returns the empty list for
\* fewer than 5 bars; for n >= 5 the anchors examined are the bars from the
\* 4th on that are among the last 15, i.e. bars max(4, n - 14) .. n: the
\* last 15 bars when n >= 18, only the last n - 3 bars when 5 <= n <= 17;
\* bars 1 .. 3 are never anchors.
C24_Amended ==
    pc = "scanned" =>
        IF hist_none \/ NBars < 5 THEN candles = << >>
        ELSE /\ DatedWithin(candles, Max2(4, NBars - 14))
             /\ DojiBars(Max2(4, NBars - 14)) # {} =>
                   ReportedAtFirst(candles, "Doji", DojiBars(Max2(4, NBars - 14)))
             /\ DojiBars(Max2(4, NBars - 14)) = {} => ~HasType(candles, "Doji")

\* a short series with a Doji-shaped bar among its first three bars, which
\* is not reported, and one later, which is
C24_Witness ==
    /\ pc = "scanned" /\ ~hist_none /\ NBars \in 5 .. 17
    /\ \E i \in 1 .. 3 : DojiHolds(hist_data, i)
    /\ \E k \in 1 .. Len(candles) : candles[k].type = "Doji" /\ candles[k].date = hist_data[4].date

\* C25: at every bar macd_line[i] equals ema_12[i] - ema_26[i] for the
\* ema_12 and ema_26 of the same result, up to the rounding of the three
\* series to 2 decimals (each within half a cent, so within 2 cents).
C25_MacdOfEmas ==
    (Computed /\ ~Failed) =>
        \A i \in 1 .. NBars :
            Abs(Val(indicators.macd_line[i])
                - (Val(indicators.ema_12[i]) - Val(indicators.ema_26[i]))) <= 2

\* 20 times the mean volume of the trailing 20 bars
TrailingVolume == SumFn([i \in 1 .. NBars |-> hist_data[i].volume], NBars - 19, NBars)

\* C26: for 20 or more bars (and indicators without the insufficient-data
\* marker, as those of such a series are) detect_patterns emits Volume
\* Spike (neutral, 70) exactly when the last bar's volume is strictly
\* greater than twice the mean volume of the trailing 20 bars, the last bar
\* included; the multiple it reports is then a quotient by a positive mean,
\* and is at least 2.0.
C26_VolumeSpike ==
    (RulesRan /\ NBars >= 20) =>
        /\ HasType(patterns, "Volume Spike") <=>
              20 * hist_data[NBars].volume > 2 * TrailingVolume
        /\ HasType(patterns, "Volume Spike") =>
              /\ HasPattern(patterns, "Volume Spike", "neutral", 70)
              /\ CountOfType(patterns, "Volume Spike") = 1
              /\ TrailingVolume > 0
              /\ VolumeMultiple(hist_data) >= 20

\* the smallest spike: one share traded on the last bar after 19 bars
\* without volume; the multiple is 20.0
C26_Witness ==
    /\ RulesRan /\ arg_kind = "computed" /\ NBars >= 20
    /\ TrailingVolume = 1 /\ hist_data[NBars].volume = 1
    /\ HasPattern(patterns, "Volume Spike", "neutral", 70)
    /\ VolumeMultiple(hist_data) = 200

SmaWindows == {20, 50, 200}

SmaOf(ind, w) == IF w = 20 THEN ind.sma_20 ELSE IF w = 50 THEN ind.sma_50 ELSE ind.sma_200

TrendTypes == {"Golden Cross", "Death Cross", "Strong Uptrend", "Strong Downtrend"}

\* C27: for w in {20, 50, 200} and n >= 20 bars, entry i of sma_w (bars
\* counted from 1) is missing exactly when i < w and is otherwise the mean
\* of the closes of bars i-w+1 .. i, rounded to the cent; so for n < 200
\* every sma_200 entry is missing and detect_patterns on the series and its
\* indicators emits no Golden Cross, Death Cross, Strong Uptrend or Strong
\* Downtrend.
C27_SmaEntries ==
    (Computed /\ ~Failed) =>
        /\ \A w \in SmaWindows : \A i \in 1 .. NBars :
              LET e == SmaOf(indicators, w)[i]
              IN  /\ e = None <=> i < w
                  /\ i >= w => 2 * Abs(w * Val(e) - WindowSum(hist_data, w, i)) <= w
        /\ NBars < 200 =>
              /\ \A i \in 1 .. NBars : indicators.sma_200[i] = None
              /\ (pc \in {"detected", "scanned", "responded"} /\ arg_kind = "computed") =>
                    \A t \in TrendTypes : ~HasType(patterns, t)

\* 60 bars: sma_50 is present and below the last close, sma_200 is missing
\* throughout, and no trend pattern is emitted
C27_Witness ==
    /\ pc = "detected" /\ arg_kind = "computed" /\ ~Failed /\ NBars = 60
    /\ indicators.sma_50[49] = None /\ indicators.sma_50[50] # None
    /\ LastClose > Val(indicators.sma_50[60])
    /\ indicators.sma_200[60] = None
    /\ \A t \in TrendTypes : ~HasType(patterns, t)
    /\ Len(patterns) > 0

\* the trailing 60 bars, or all bars when there are fewer
Trailing60 == Max2(1, NBars - 59) .. NBars

\* C28: for 20 or more bars the support and resistance of the result
\* satisfy support <= last close <= resistance; each is the close of a bar
\* among the trailing 60 bars (all bars when there are fewer than 60), the
\* lowest and the highest of them.
C28_Levels ==
    (Computed /\ ~Failed) =>
        /\ indicators.support <= LastClose
        /\ LastClose <= indicators.resistance
        /\ \E i \in Trailing60 : hist_data[i].close = indicators.support
        /\ \E i \in Trailing60 : hist_data[i].close = indicators.resistance
        /\ \A i \in Trailing60 :
              indicators.support <= hist_data[i].close /\ hist_data[i].close <= indicators.resistance

\* a long series with distinct levels in which a bar before the trailing 60
\* closed below the support
C28_Witness ==
    /\ pc = "computed" /\ ~Failed /\ NBars = 201
    /\ indicators.support < indicators.resistance
    /\ \E i \in 1 .. (NBars - 60) : hist_data[i].close < indicators.support

\* the type names of detect_candlestick_patterns and of the composite rules
CandleTypes ==
    {"Doji", "Hammer", "Inverted Hammer", "Bullish Engulfing", "Bearish Engulfing",
     "Morning Star", "Evening Star", "Three White Soldiers", "Three Black Crows"}
CompositeTypes ==
    {"Golden Cross", "Death Cross", "Strong Uptrend", "Strong Downtrend",
     "RSI Overbought", "RSI Oversold", "MACD Bullish Crossover", "MACD Bearish Crossover",
     "Bollinger Band Upper Touch", "Bollinger Band Lower Touch", "Double Top",
     "Double Bottom", "Volume Spike", "Near Support", "Near Resistance"}

\* C29: the list returned by detect_patterns never holds two patterns of
\* the same type: the candlestick patterns, which come first and carry the
\* candlestick category, have pairwise distinct candlestick types, every
\* other pattern has a composite type that occurs once, and no composite
\* type name is a candlestick type name.
C29_UniqueTypes ==
    (Detected /\ ~raised) =>
        /\ \A a, b \in 1 .. Len(patterns) : a # b => patterns[a].type # patterns[b].type
        /\ \A k \in 1 .. Len(patterns) :
              IF "category" \in DOMAIN patterns[k]
              THEN patterns[k].type \in CandleTypes
              ELSE patterns[k].type \in CompositeTypes
        /\ \A t \in CandleTypes \cup CompositeTypes : CountOfType(patterns, t) <= 1
        /\ CandleTypes \cap CompositeTypes = {}

\* the scan found one candlestick type on two bars, and the result holds it
\* once together with at least two composite patterns
C29_Witness ==
    /\ Detected /\ ~raised
    /\ \E a, b \in 1 .. Len(Found) : a < b /\ Found[a].type = Found[b].type
                                     /\ CountOfType(patterns, Found[a].type) = 1
    /\ Cardinality({ k \in 1 .. Len(patterns) : patterns[k].type \in CompositeTypes }) >= 2

\* the opposed pairs of composite pattern types
OpposedPairs ==
    { <<"Golden Cross", "Death Cross">>,
      <<"Strong Uptrend", "Strong Downtrend">>,
      <<"RSI Overbought", "RSI Oversold">>,
      <<"MACD Bullish Crossover", "MACD Bearish Crossover">>,
      <<"Bollinger Band Upper Touch", "Bollinger Band Lower Touch">> }

\* C30: in a result of detect_patterns the two patterns of an opposed pair
\* never both appear: not Golden Cross with Death Cross, not Strong Uptrend
\* with Strong Downtrend, not RSI Overbought with RSI Oversold, not MACD
\* Bullish Crossover with MACD Bearish Crossover, not Bollinger Band Upper
\* Touch with Bollinger Band Lower Touch.
C30_OpposedPairs ==
    (Detected /\ ~raised) =>
        \A pr \in OpposedPairs : ~(HasType(patterns, pr[1]) /\ HasType(patterns, pr[2]))

\* a result holding one pattern of at least three of the pairs, the
\* Bollinger pair among them
C30_Witness ==
    /\ RulesRan
    /\ Cardinality({ pr \in OpposedPairs :
                        HasType(patterns, pr[1]) \/ HasType(patterns, pr[2]) }) >= 3
    /\ HasType(patterns, "Bollinger Band Upper Touch") \/ HasType(patterns, "Bollinger Band Lower Touch")

====
